---- MODULE Spec2Model ----
(***************************************************************************)
(* State-machine model of requests/cache.py: the two record stores         *)
(* (InMemory, FSStorage/FSEntry), the Tee reader, the two cache handlers   *)
(* (CacheableRequest, EtagValidator) and the two session hooks             *)
(* (pre_send_hook, response_hook).                                         *)
(*                                                                         *)
(* Conventions.  A Python value that may be None is a sequence of length   *)
(* at most one: <<>> is None and <<x>> is x.  A function that may raise    *)
(* returns [exc |-> name, val |-> v]; exc = "" means a normal return.      *)
(* Header maps are functions from lower-cased header names to values (the  *)
(* case-insensitive map); a missing name is a missing domain element.      *)
(* Instants and durations are whole seconds.                               *)
(***************************************************************************)
EXTENDS Integers, Sequences, FiniteSets, TLC

VARIABLES
    storage,    \* the Storage object handed to both hooks
    tees,       \* the live Tee objects (each owns its TSlot writer)
    nreads,     \* number of read() calls made on Tees so far
    nreqs,      \* number of requests the session has sent so far
    req,        \* the request of the hook invocation in progress / just done
    resp,       \* the response of that request (None until there is one)
    pc,         \* idle, network, cached, done, pre_send_error, response_error
    exc,        \* name of the exception that escaped the last hook ("" if none)
    now,        \* datetime.now(), in seconds
    closing,    \* the FSEntry.add_record calls in progress (concurrent writers)
    readers,    \* the content readers callers hold (from get_record_content)
    call        \* the last hook or handler invocation: its name, inputs and outcome

vars == <<storage, tees, nreads, nreqs, req, resp, pc, exc, now, closing, readers, call>>

----------------------------------------------------------------------------
(* Bounds of the model *)

MaxTime  == 1      \* the clock runs from 0 to MaxTime
MaxTees  == 2      \* writers a caller of the store holds at a time
MaxLive  == 1      \* response bodies being read through a Tee at a time
MaxReads == 3      \* read() calls on all the Tees together
MaxReqs  == 2      \* requests the session sends
Lifetime == 1      \* freshness lifetime (seconds) the origin server grants

----------------------------------------------------------------------------
(* Values *)

None == <<>>
Some(x) == <<x>>

URLS == {"http://x/a", "http://x/b"}
Chunks == {<<"h", "e">>, <<"y">>}

\* str.lower() on the strings the model uses
Lower(s) ==
    CASE s = "Accept" -> "accept"
      [] s = "EN" -> "en"
      [] OTHER -> s

\* md5(x).digest() / hexdigest(): an injective tag (collisions are not modelled)
md5(x) == <<"md5", x>>

\* Subtypes: None, or a dict from header name to header value (a set of pairs)
NoSubtype == [isNone |-> TRUE, items |-> {}]
DictSubtype(items) == [isNone |-> FALSE, items |-> items]
Subtypes == {NoSubtype, DictSubtype({<<"accept", "en">>})}

Has(h, k) == k \in DOMAIN h
Put(h, k, v) == (k :> v) @@ h

Max(a, b) == IF a >= b THEN a ELSE b

RECURSIVE Join(_)
\* ''.join(chunks)
Join(chunks) == IF chunks = <<>> THEN <<>> ELSE Head(chunks) \o Join(Tail(chunks))

Ok(v) == [exc |-> "", val |-> v]
Raise(e) == [exc |-> e, val |-> None]

----------------------------------------------------------------------------
(* InMemory: buffer maps md5(url) to the list of records of that url *)

InMemory_init == [kind |-> "InMemory", buffer |-> <<>>]

InMemory_key(url) == md5(url)

InMemory_put(st, url, subtype, headers, content) ==
    LET k == InMemory_key(url)
        old == IF k \in DOMAIN st.buffer THEN st.buffer[k] ELSE <<>>
        rec == [subtype |-> subtype, headers |-> headers, content |-> content]
    IN  [st EXCEPT !.buffer = (k :> Append(old, rec)) @@ st.buffer]

\* index of the first record of records whose subtype equals subtype, 0 if none
FirstMatch(records, subtype) ==
    LET I == {i \in DOMAIN records : records[i].subtype = subtype}
    IN  IF I = {} THEN 0 ELSE CHOOSE i \in I : \A j \in I : i <= j

InMemory_get(st, url, subtype) ==
    LET k == InMemory_key(url)
    IN  IF k \in DOMAIN st.buffer /\ FirstMatch(st.buffer[k], subtype) # 0
        THEN Some(st.buffer[k][FirstMatch(st.buffer[k], subtype)])
        ELSE None

InMemory_get_record_headers(st, url, subtype) ==
    LET record == InMemory_get(st, url, subtype)
    IN  IF record # None THEN Some(record[1].headers) ELSE None

InMemory_get_record_content(st, url, subtype) ==
    LET record == InMemory_get(st, url, subtype)
    IN  IF record # None THEN Some(record[1].content) ELSE None

InMemory_get_record(st, url, subtype) ==
    LET record == InMemory_get(st, url, subtype)
    IN  IF record # None
        THEN Some([headers |-> record[1].headers, content |-> record[1].content])
        ELSE None

InMemory_get_record_subtypes(st, url) ==
    LET k == InMemory_key(url)
    IN  IF k \in DOMAIN st.buffer
        THEN Some([i \in DOMAIN st.buffer[k] |-> st.buffer[k][i].subtype])
        ELSE None

RemoveAt(seq, ix) == [i \in 1..(Len(seq) - 1) |-> IF i < ix THEN seq[i] ELSE seq[i + 1]]

InMemory_purge_record(st, url, subtype) ==
    LET k == InMemory_key(url)
    IN  IF k \in DOMAIN st.buffer /\ FirstMatch(st.buffer[k], subtype) # 0
        THEN [st EXCEPT !.buffer[k] = RemoveAt(@, FirstMatch(@, subtype))]
        ELSE st

----------------------------------------------------------------------------
(* FSEntry / FSStorage.  st.index maps the path of a url's index file to    *)
(* the three-line records the file holds, in file order (the leading        *)
(* "# url" comment line is written when the file is created and skipped by  *)
(* every reader, so it is not represented); a record's position in the      *)
(* sequence is its 'pos'.  st.content maps the path of a content file to    *)
(* its bytes.  A path that is not in the domain is a file that is missing.  *)

FSStorage_init == [kind |-> "FSStorage", index |-> <<>>, content |-> <<>>]

FSEntry_full_path(url) == md5(url)

FSEntry_content_path(url, rs) == <<FSEntry_full_path(url), ":", md5(rs)>>

\* json.dumps of the sorted, lower-cased (name, value) pairs, or of null
FSEntry_encode_subtype(subtype) ==
    IF subtype.isNone
    THEN [json |-> "null", pairs |-> {}]
    ELSE [json |-> "list", pairs |-> {<<Lower(p[1]), Lower(p[2])>> : p \in subtype.items}]

\* json.loads, then CaseInsensitiveDict of the pairs
FSEntry_decode_subtype(line) ==
    IF line.json = "null" THEN NoSubtype ELSE DictSubtype(line.pairs)

TimeKeys == {"_response_time", "_request_time"}

\* dict(headers) with the two datetimes as isoformat() strings, as JSON
FSEntry_encode_headers(headers) ==
    [json |-> [k \in DOMAIN headers |->
                 IF k \in TimeKeys THEN [iso |-> headers[k]] ELSE headers[k]]]

\* json.loads, CaseInsensitiveDict, strptime of the two isoformat strings
FSEntry_decode_headers(line) ==
    [k \in DOMAIN line.json |->
       IF k \in TimeKeys THEN line.json[k].iso ELSE line.json[k]]

\* the three lines _write_record appends
FSEntry_write_record(subtype, headers, enabled) ==
    [enabled |-> IF enabled THEN 1 ELSE 0,
     subtype |-> FSEntry_encode_subtype(subtype),
     headers |-> FSEntry_encode_headers(headers)]

RECURSIVE FSEntry_records_from(_, _, _, _)
\* the records _records yields when reading lines from position pos on;
\* want = <<>> is ALL_RECORDS, want = <<s>> selects subtype s
FSEntry_records_from(lines, pos, want, only_enabled) ==
    IF pos > Len(lines) THEN <<>>
    ELSE LET rb == lines[pos].enabled # 0
             rs == lines[pos].subtype
             rest == FSEntry_records_from(lines, pos + 1, want, only_enabled)
         IN  IF want # <<>> /\ rs # FSEntry_encode_subtype(want[1]) THEN rest
             ELSE IF only_enabled /\ ~rb THEN rest
             ELSE <<[pos |-> pos, enabled |-> rb, subtype |-> rs,
                     headers |-> FSEntry_decode_headers(lines[pos].headers)]>> \o rest

FSEntry_records(lines, want, only_enabled) ==
    FSEntry_records_from(lines, 1, want, only_enabled)

\* open_index('w'): the index file is created (empty of records) when missing
FSEntry_open_index_w(st, url) ==
    IF FSEntry_full_path(url) \in DOMAIN st.index
    THEN st
    ELSE [st EXCEPT !.index = (FSEntry_full_path(url) :> <<>>) @@ st.index]

FSEntry_disable_lines_none(lines, subtype) ==
    \* faulty variant: no enabled byte is overwritten
    lines

\* _disable_record: a '0' is written over the enabled byte of every record
\* that _records(fh, subtype) yields
FSEntry_disable_lines(lines, subtype) ==
    LET hit == {r.pos : r \in {FSEntry_records(lines, Some(subtype), TRUE)[i] :
                     i \in DOMAIN FSEntry_records(lines, Some(subtype), TRUE)}}
    IN  [i \in DOMAIN lines |-> IF i \in hit THEN [lines[i] EXCEPT !.enabled = 0]
                                             ELSE lines[i]]

FSEntry_disable_record(st, url, subtype) ==
    LET st1 == FSEntry_open_index_w(st, url)
        p == FSEntry_full_path(url)
    IN  [st1 EXCEPT !.index[p] = FSEntry_disable_lines(@, subtype)]

\* FSEntry.get_record: IOError when the index file is missing
FSEntry_get_record(st, url, subtype) ==
    LET p == FSEntry_full_path(url)
    IN  IF p \notin DOMAIN st.index THEN Raise("IOError")
        ELSE LET rs == FSEntry_records(st.index[p], Some(subtype), TRUE)
             IN  IF rs = <<>> THEN Ok(None)
                 ELSE Ok(Some([headers |-> rs[1].headers,
                               content |-> FSEntry_content_path(url, rs[1].subtype)]))

CHUNK == 16 * 1024

RECURSIVE CopyChunks(_)
\* the read(CHUNK)/write loop of add_record
CopyChunks(f) ==
    IF f = <<>> THEN <<>>
    ELSE LET n == IF Len(f) < CHUNK THEN Len(f) ELSE CHUNK
         IN  SubSeq(f, 1, n) \o CopyChunks(SubSeq(f, n + 1, Len(f)))

FSEntry_add_record(st, url, subtype, headers, content) ==
    LET st1 == FSEntry_disable_record(st, url, subtype)
        p == FSEntry_full_path(url)
        line == FSEntry_write_record(subtype, headers, TRUE)
        cp == FSEntry_content_path(url, line.subtype)
    IN  [st1 EXCEPT !.index[p] = Append(@, line),
                    !.content = (cp :> CopyChunks(content)) @@ @]

FSStorage_put(st, url, subtype, headers, content) ==
    FSEntry_add_record(st, url, subtype, headers, content)

\* file(path): IOError when the file is missing
OpenFile(st, path) ==
    IF path \in DOMAIN st.content THEN Ok(Some(st.content[path])) ELSE Raise("IOError")

FSStorage_get_record(st, url, subtype) ==
    LET record == FSEntry_get_record(st, url, subtype)
    IN  IF record.exc # "" THEN record
        ELSE IF record.val = None THEN Ok(None)
        ELSE LET f == OpenFile(st, record.val[1].content)
             IN  IF f.exc # "" THEN f
                 ELSE Ok(Some([headers |-> record.val[1].headers, content |-> f.val[1]]))

FSStorage_get_record_headers(st, url, subtype) ==
    LET record == FSEntry_get_record(st, url, subtype)
    IN  IF record.exc # "" THEN record
        ELSE IF record.val = None THEN Ok(None)
        ELSE Ok(Some(record.val[1].headers))

FSStorage_get_record_content(st, url, subtype) ==
    LET record == FSEntry_get_record(st, url, subtype)
    IN  IF record.exc # "" THEN record
        ELSE IF record.val = None THEN Ok(None)
        ELSE OpenFile(st, record.val[1].content)

\* IOError (no index file) is caught and gives []
FSStorage_get_record_subtypes(st, url) ==
    LET p == FSEntry_full_path(url)
    IN  IF p \notin DOMAIN st.index THEN Some(<<>>)
        ELSE LET rs == FSEntry_records(st.index[p], <<>>, TRUE)
             IN  Some([i \in DOMAIN rs |-> FSEntry_decode_subtype(rs[i].subtype)])

FSStorage_purge_record(st, url, subtype) ==
    FSEntry_disable_record(st, url, subtype)

----------------------------------------------------------------------------
(* The Storage interface, dispatched on the class of the store *)

Storage_get_record(st, url, subtype) ==
    IF st.kind = "InMemory" THEN Ok(InMemory_get_record(st, url, subtype))
    ELSE FSStorage_get_record(st, url, subtype)

Storage_get_record_headers(st, url, subtype) ==
    IF st.kind = "InMemory" THEN Ok(InMemory_get_record_headers(st, url, subtype))
    ELSE FSStorage_get_record_headers(st, url, subtype)

Storage_get_record_content(st, url, subtype) ==
    IF st.kind = "InMemory" THEN Ok(InMemory_get_record_content(st, url, subtype))
    ELSE FSStorage_get_record_content(st, url, subtype)

Storage_get_record_subtypes(st, url) ==
    IF st.kind = "InMemory" THEN InMemory_get_record_subtypes(st, url)
    ELSE FSStorage_get_record_subtypes(st, url)

Storage_purge_record(st, url, subtype) ==
    IF st.kind = "InMemory" THEN InMemory_purge_record(st, url, subtype)
    ELSE FSStorage_purge_record(st, url, subtype)

\* the bytes the writer holds: the TSlot list (InMemory) or the temporary file
TSlot_empty(st) == <<>>

TSlot_write_front(st, slot, chunk) ==
    \* faulty variant: the chunk is put in front of what was written before
    IF st.kind = "InMemory"
    THEN [slot EXCEPT !.data = <<chunk>> \o @]
    ELSE [slot EXCEPT !.data = chunk \o @]

TSlot_write(st, slot, chunk) ==
    IF st.kind = "InMemory"
    THEN [slot EXCEPT !.data = Append(@, chunk)]
    ELSE [slot EXCEPT !.data = @ \o chunk]

TSlot_close(st, slot) ==
    IF st.kind = "InMemory"
    THEN InMemory_put(st, slot.url, slot.subtype, slot.headers, Join(slot.data))
    ELSE FSStorage_put(st, slot.url, slot.subtype, slot.headers, slot.data)

Storage_new_record_eager(st, url, subtype, headers) ==
    \* faulty variant: the (still empty) record is put in the store as soon as it is opened
    LET slot == [url |-> url, subtype |-> subtype, headers |-> headers,
                 data |-> TSlot_empty(st)]
    IN  [st |-> TSlot_close(st, slot), slot |-> slot]

\* new_record: the store as it is left, and the TSlot returned
Storage_new_record(st, url, subtype, headers) ==
    [st |-> st,
     slot |-> [url |-> url, subtype |-> subtype, headers |-> headers,
               data |-> TSlot_empty(st)]]

----------------------------------------------------------------------------
(* Tee.  out is what read() has returned to the caller so far, closes the   *)
(* number of reads that returned empty.                                     *)

Tee_init(tslot) == [tslot |-> tslot, out |-> <<>>, closes |-> 0]

\* Tee.read when raw.read returns chunk
Tee_read(st, tee, chunk) ==
    IF chunk # <<>>
    THEN [st |-> st,
          tee |-> [tee EXCEPT !.tslot = TSlot_write(st, @, chunk),
                              !.out = Append(@, chunk)]]
    ELSE [st |-> TSlot_close(st, tee.tslot),
          tee |-> [tee EXCEPT !.closes = @ + 1]]

----------------------------------------------------------------------------
(* Date codec.  A date string is described by what httpfulldate2time looks  *)
(* at: whether it starts with a full day name, whether it holds a comma or  *)
(* a space, the layout of the rest (form), and the instant t it denotes     *)
(* when the layout is the one the detected mode expects.                    *)

HttpDate(t) == [fullday |-> FALSE, comma |-> TRUE, space |-> TRUE, form |-> "rfc1123", t |-> t]
Rfc850Date(t) == [fullday |-> TRUE, comma |-> TRUE, space |-> TRUE, form |-> "rfc850", t |-> t]
AsctimeDate(t) == [fullday |-> FALSE, comma |-> FALSE, space |-> TRUE, form |-> "asctime", t |-> t]
\* "soon, I think": a comma, but no date
JunkDate == [fullday |-> FALSE, comma |-> TRUE, space |-> TRUE, form |-> "junk", t |-> 0]
\* "never": neither a comma nor a space
WordDate == [fullday |-> FALSE, comma |-> FALSE, space |-> FALSE, form |-> "junk", t |-> 0]

httpfulldate2time(s) ==
    LET mode == IF s.fullday THEN 1 ELSE IF ~s.comma THEN 2 ELSE 0
    IN  IF mode \in {0, 1}
        THEN IF ~s.comma THEN Raise("IndexError")           \* s.split(',', 1)[1]
             ELSE IF (mode = 0 /\ s.form = "rfc1123") \/ (mode = 1 /\ s.form = "rfc850")
                  THEN Ok(Some(s.t))
                  ELSE Ok(None)                             \* ValueError caught
        ELSE IF ~s.space THEN Raise("IndexError")           \* s.split(' ', 1)[1]
             ELSE IF s.form = "asctime" THEN Ok(Some(s.t)) ELSE Ok(None)

----------------------------------------------------------------------------
(* Handlers.  A verdict is [exc, cmd, url, subtype, rq]: cmd = "" is the    *)
(* return value None; rq is the request object a 'request' verdict hands    *)
(* back.  A Cache-Control value is [no_cache, max_age]: whether the string  *)
(* contains 'no-cache', and the number the max-age regular expression finds *)
(* (None when it does not match).  A Vary value is the list of names        *)
(* between its commas; "*" is the one-name list <<"*">>.                    *)

CacheControl(no_cache, max_age) == [no_cache |-> no_cache, max_age |-> max_age]

NoVerdict(rq) == [exc |-> "", cmd |-> "", url |-> "", subtype |-> NoSubtype, rq |-> rq]
Verdict(cmd, url, subtype, rq) ==
    [exc |-> "", cmd |-> cmd, url |-> url, subtype |-> subtype, rq |-> rq]
Raises(e, rq) == [exc |-> e, cmd |-> "", url |-> "", subtype |-> NoSubtype, rq |-> rq]

\* subtypes is None or Some(dict from subtype to headers)
EtagValidator_handle_request(rq, subtypes) ==
    IF subtypes = None \/ DOMAIN subtypes[1] = {} \/ NoSubtype \notin DOMAIN subtypes[1]
    THEN NoVerdict(rq)
    ELSE IF Has(subtypes[1][NoSubtype], "etag")
         THEN LET r == [rq EXCEPT !.headers =
                            Put(@, "if-none-match", subtypes[1][NoSubtype]["etag"])]
              IN  Verdict("request", "", NoSubtype, r)
         ELSE NoVerdict(rq)

EtagValidator_handle_response(rsp) ==
    IF rsp.status_code = 304 THEN Verdict("fetch", rsp.url, NoSubtype, rsp.request)
    ELSE IF rsp.status_code < 300 /\ Has(rsp.headers, "etag")
         THEN Verdict("store", rsp.url, NoSubtype, rsp.request)
         ELSE NoVerdict(rsp.request)

\* the non-None subtypes all of whose (key, value) pairs the request carries
CacheableRequest_matching(rq, subtypes) ==
    {s \in DOMAIN subtypes :
        /\ ~s.isNone
        /\ \A p \in s.items : /\ Has(rq.headers, Lower(p[1]))
                              /\ rq.headers[Lower(p[1])] = p[2]}

\* the (subtype, cached_headers) pairs the search loop can end with: a
\* matching subtype (which one, when several match, is the dict's iteration
\* order), else the None subtype
CacheableRequest_selected(rq, subtypes) ==
    IF CacheableRequest_matching(rq, subtypes) # {}
    THEN {<<s, subtypes[s]>> : s \in CacheableRequest_matching(rq, subtypes)}
    ELSE IF NoSubtype \in DOMAIN subtypes
         THEN {<<NoSubtype, subtypes[NoSubtype]>>}
         ELSE {}

diff_reversed(a, b) == b - a     \* faulty variant

diff(a, b) == a - b

NoCacheIn_never(ccontrol) == FALSE     \* faulty variant

\* 'no-cache' in ccontrol
NoCacheIn(ccontrol) == ccontrol.no_cache

\* lines 505-525: current_age at time, date being the parsed Date header
CacheableRequest_current_age(cached_headers, date, time) ==
    LET apparent_age == Max(0, diff(cached_headers["_response_time"], date))
        age_value == IF Has(cached_headers, "age") THEN cached_headers["age"] ELSE 0
        corrected_received_age == Max(apparent_age, age_value)
        response_delay == diff(cached_headers["_response_time"],
                               cached_headers["_request_time"])
        corrected_initial_age == corrected_received_age + response_delay
        resident_time == diff(time, cached_headers["_response_time"])
    IN  resident_time + corrected_initial_age

\* lines 479-537 for the selected entry
CacheableRequest_freshness(rq, subtype, cached_headers, time) ==
    LET hascc == Has(cached_headers, "cache-control")
        max_age == IF hascc THEN cached_headers["cache-control"].max_age ELSE None
        expires == IF max_age = None /\ Has(cached_headers, "expires")
                   THEN httpfulldate2time(cached_headers["expires"])
                   ELSE Ok(None)
        date == IF Has(cached_headers, "date")
                THEN httpfulldate2time(cached_headers["date"])
                ELSE Raise("AttributeError")
    IN  IF hascc /\ NoCacheIn(cached_headers["cache-control"]) THEN NoVerdict(rq)
        ELSE IF expires.exc # "" THEN Raises(expires.exc, rq)
        ELSE IF max_age = None /\ expires.val = None THEN NoVerdict(rq)
        ELSE IF date.exc # "" THEN Raises(date.exc, rq)
        ELSE IF date.val = None THEN Raises("TypeError", rq)
        ELSE
        LET current_age == CacheableRequest_current_age(cached_headers, date.val[1], time)
        IN  IF max_age # None /\ max_age[1] # 0
            THEN IF max_age[1] > current_age
                 THEN Verdict("fetch", rq.full_url, subtype, rq)
                 ELSE Verdict("purge", rq.full_url, subtype, rq)
            ELSE IF expires.val = None
                 THEN Raises("TypeError", rq)     \* diff(None, date)
                 ELSE IF diff(expires.val[1], date.val[1]) > current_age
                      THEN Verdict("fetch", rq.full_url, subtype, rq)
                      ELSE Verdict("purge", rq.full_url, subtype, rq)

\* the verdicts handle_request can return (one per entry the search can select)
CacheableRequest_handle_request(rq, subtypes, time) ==
    IF subtypes = None \/ DOMAIN subtypes[1] = {} THEN {NoVerdict(rq)}
    ELSE IF CacheableRequest_selected(rq, subtypes[1]) = {} THEN {NoVerdict(rq)}
    ELSE {CacheableRequest_freshness(rq, e[1], e[2], time) :
             e \in CacheableRequest_selected(rq, subtypes[1])}

CacheableRequest_handle_response(rsp, time) ==
    LET h == rsp.headers
        none == NoVerdict(rsp.request)
        hascc == Has(h, "cache-control")
        vary == IF Has(h, "vary") THEN h["vary"] ELSE <<>>
        names == {Lower(vary[i]) : i \in DOMAIN vary}
        subtype == IF vary # <<>>
                   THEN DictSubtype({<<n, h[n]>> : n \in names \cap DOMAIN h})
                   ELSE NoSubtype
        expires == IF Has(h, "expires") THEN httpfulldate2time(h["expires"]) ELSE Ok(None)
    IN  IF rsp.request.method \notin {"GET", "HEAD"} \/ rsp.status_code >= 500 THEN none
        ELSE IF hascc /\ NoCacheIn(h["cache-control"]) THEN none
        ELSE IF ~((hascc /\ h["cache-control"].max_age # None) \/ Has(h, "expires"))
             THEN none
        ELSE IF vary = <<"*">> THEN none
        ELSE IF \E n \in names : ~Has(h, n) THEN none
        ELSE IF Has(h, "expires") /\ expires.exc # "" THEN Raises(expires.exc, rsp.request)
        ELSE IF Has(h, "expires") /\ expires.val = None
             THEN Raises("TypeError", rsp.request)          \* None <= datetime.now()
        ELSE IF Has(h, "expires") /\ expires.val[1] <= time THEN none
        ELSE Verdict("store", rsp.url, subtype, rsp.request)

HANDLERS_swapped == <<"EtagValidator", "CacheableRequest">>   \* faulty variant

HANDLERS == <<"CacheableRequest", "EtagValidator">>

handle_request(h, rq, subtypes, time) ==
    IF h = "CacheableRequest" THEN CacheableRequest_handle_request(rq, subtypes, time)
    ELSE {EtagValidator_handle_request(rq, subtypes)}

handle_response(h, rsp, time) ==
    IF h = "CacheableRequest" THEN CacheableRequest_handle_response(rsp, time)
    ELSE EtagValidator_handle_response(rsp)

----------------------------------------------------------------------------
(* Record headers as response_hook stamps them *)

\* the ETag of the n-th response the server sends
ETagOf(n) ==
    CASE n = 1 -> "v1" [] n = 2 -> "v2" [] n = 3 -> "v3" [] OTHER -> "v4"

\* headers of the n-th record handed to new_record: every response differs
\* from the others at least in its ETag
SampleHeaders(n) ==
    ("date" :> HttpDate(0)) @@ ("etag" :> ETagOf(n)) @@ ("_request_time" :> 0)
    @@ ("_response_time" :> 0) @@ ("_status_code" :> 200)

----------------------------------------------------------------------------
(* The hooks.  A response is [url, status_code, headers, from_cache, raw,   *)
(* request]; raw is the body stream: the transport's ("network"), a Tee     *)
(* around it ("tee": the Tee created last) or a reader over cached content  *)
(* ("content", with the bytes).                                             *)

NetworkBody == [kind |-> "network", data |-> <<>>]
TeeBody == [kind |-> "tee", data |-> <<>>]
ContentBody(content) == [kind |-> "content", data |-> content]

\* neither store has a method named purge (line 630 calls it)
Storage_purge(st, url, subtype) == Raise("AttributeError")

build_response_from_storage(st, rq, url, subtype) ==
    LET r == Storage_get_record(st, url, subtype)
    IN  IF r.exc # "" THEN [exc |-> r.exc, req |-> rq, resp |-> None]
        ELSE IF r.val = None                    \* headers, content = None
             THEN [exc |-> "TypeError", req |-> rq, resp |-> None]
        ELSE LET headers == r.val[1].headers
                 code == IF Has(headers, "_status_code") /\ headers["_status_code"] # 0
                         THEN headers["_status_code"] ELSE 200
             IN  [exc |-> "",
                  req |-> [rq EXCEPT !.sent = TRUE],
                  resp |-> Some([url |-> rq.full_url, status_code |-> code,
                                 headers |-> headers, from_cache |-> TRUE,
                                 raw |-> ContentBody(r.val[1].content),
                                 request |-> rq])]

\* lines 600-606: the dict subtype -> headers; a subtype that is a dict cannot
\* be a dict key (TypeError: unhashable type)
pre_send_subtypes(st, url) ==
    LET cached == Storage_get_record_subtypes(st, url)
    IN  IF cached = None \/ cached[1] = <<>> THEN Ok(None)
        ELSE IF \E j \in DOMAIN cached[1] : ~cached[1][j].isNone THEN Raise("TypeError")
        ELSE LET h == Storage_get_record_headers(st, url, NoSubtype)
             IN  IF h.exc # "" THEN Raise(h.exc)
                 ELSE Ok(Some(NoSubtype :> (IF h.val = None THEN <<>> ELSE h.val[1])))

\* one entry of the record of a hook invocation: handler h was consulted and
\* returned a verdict with command cmd ("" for None or for an exception)
Consulted(h, cmd) == [h |-> h, cmd |-> cmd]

RECURSIVE pre_send_loop(_, _, _, _, _)
\* the loop of lines 615-631 from handler i on: the possible outcomes, each
\* with the handlers consulted (called)
pre_send_loop(i, st, rq, subtypes, time) ==
    IF i > Len(HANDLERS) THEN {[exc |-> "", req |-> rq, resp |-> None, called |-> <<>>]}
    ELSE IF HANDLERS[i] \in rq.skip THEN pre_send_loop(i + 1, st, rq, subtypes, time)
    ELSE UNION {
           LET me == <<Consulted(HANDLERS[i], res.cmd)>>
           IN
           IF res.exc # "" THEN {[exc |-> res.exc, req |-> rq, resp |-> None, called |-> me]}
           ELSE IF res.cmd = ""
                THEN {[o EXCEPT !.called = me \o @] :
                         o \in pre_send_loop(i + 1, st, rq, subtypes, time)}
           ELSE IF res.cmd = "request"
                THEN {[exc |-> "", req |-> res.rq, resp |-> None, called |-> me]}
           ELSE IF res.cmd = "fetch"
                THEN LET r == build_response_from_storage(st, rq, res.url, res.subtype)
                     IN  {[exc |-> r.exc, req |-> r.req, resp |-> r.resp, called |-> me]}
                ELSE {[exc |-> Storage_purge(st, res.url, res.subtype).exc,
                       req |-> rq, resp |-> None, called |-> me]}
           : res \in handle_request(HANDLERS[i], rq, subtypes, time)}

\* the possible outcomes [exc, req, resp, called] of pre_send_hook(storage, req)
pre_send_hook(st, rq, time) ==
    LET subtypes == pre_send_subtypes(st, rq.full_url)
    IN  IF subtypes.exc # ""
        THEN {[exc |-> subtypes.exc, req |-> rq, resp |-> None, called |-> <<>>]}
        ELSE {IF o.exc # "" THEN o ELSE [o EXCEPT !.req.request_time = Some(time)] :
                 o \in pre_send_loop(1, st, rq, subtypes.val, time)}

RECURSIVE response_loop(_, _, _, _)
\* the loop of lines 644-666 from handler i on: [exc, st, resp, slot, called],
\* slot being the writer a 'store' verdict opened
response_loop(i, st, rsp, time) ==
    IF i > Len(HANDLERS)
    THEN [exc |-> "", st |-> st, resp |-> rsp, slot |-> None, called |-> <<>>]
    ELSE LET res == handle_response(HANDLERS[i], rsp, time)
             me == <<Consulted(HANDLERS[i], res.cmd)>>
         IN  IF res.exc # ""
             THEN [exc |-> res.exc, st |-> st, resp |-> rsp, slot |-> None, called |-> me]
             ELSE IF res.cmd = ""
             THEN [response_loop(i + 1, st, rsp, time) EXCEPT !.called = me \o @]
             ELSE IF res.cmd = "store"
             THEN LET headers == Put(Put(Put(rsp.headers,
                                    "_request_time", rsp.request.request_time[1]),
                                    "_response_time", time),
                                    "_status_code", rsp.status_code)
                      record == Storage_new_record(st, res.url, res.subtype, headers)
                  IN  [exc |-> "", st |-> record.st,
                       resp |-> [rsp EXCEPT !.raw = TeeBody],
                       slot |-> Some(record.slot), called |-> me]
             ELSE IF res.cmd = "fetch"
             THEN LET r == Storage_get_record(st, res.url, res.subtype)
                  IN  IF r.exc # ""
                      THEN [exc |-> r.exc, st |-> st, resp |-> rsp, slot |-> None,
                            called |-> me]
                      ELSE IF r.val = None          \* headers, content = None
                      THEN [exc |-> "TypeError", st |-> st, resp |-> rsp, slot |-> None,
                            called |-> me]
                      ELSE [exc |-> "", st |-> st,
                            resp |-> [rsp EXCEPT !.headers = r.val[1].headers,
                                                 !.raw = ContentBody(r.val[1].content),
                                                 !.from_cache = TRUE],
                            slot |-> None, called |-> me]
             ELSE [exc |-> "", st |-> st, resp |-> rsp, slot |-> None, called |-> me]

response_hook(st, rsp, time) ==
    LET nothing == [exc |-> "", st |-> st, resp |-> rsp, slot |-> None, called |-> <<>>]
        date == IF Has(rsp.headers, "date")
                THEN httpfulldate2time(rsp.headers["date"]) ELSE Ok(None)
    IN  IF ~Has(rsp.headers, "date") THEN nothing
        ELSE IF date.exc # "" THEN [nothing EXCEPT !.exc = date.exc]
        ELSE IF date.val = None THEN nothing
        ELSE IF rsp.from_cache THEN nothing
        ELSE response_loop(1, st, rsp, time)

----------------------------------------------------------------------------
(* Initial state and the operations on the store *)

\* req before any request was made; request_time is the attribute _request_time
NoRequest == [full_url |-> "", method |-> "", headers |-> <<>>, skip |-> {},
              sent |-> FALSE, request_time |-> None]

NoCall == [hook |-> "", called |-> <<>>]

Init ==
    /\ storage \in {InMemory_init, FSStorage_init}
    /\ tees = <<>>
    /\ nreads = 0
    /\ nreqs = 0
    /\ req = NoRequest
    /\ resp = None
    /\ pc = "idle"
    /\ exc = ""
    /\ now = 0
    /\ closing = <<>>
    /\ readers = <<>>
    /\ call = NoCall

\* a caller obtains a writer and wraps it in a Tee
NewRecord ==
    \E url \in URLS, subtype \in Subtypes :
        /\ Len(tees) < MaxTees
        /\ LET r == Storage_new_record(storage, url, subtype,
                                       SampleHeaders(Len(tees) + 1))
           IN  /\ storage' = r.st
               /\ tees' = Append(tees, Tee_init(r.slot))
        /\ UNCHANGED <<call, closing, readers, nreads, nreqs, req, resp, pc, exc, now>>

\* one read() on a Tee; after a read has returned empty the stream stays empty
TeeRead ==
    \E i \in DOMAIN tees, chunk \in Chunks \cup {<<>>} :
        /\ nreads < MaxReads
        /\ tees[i].closes > 0 => chunk = <<>>
        /\ LET r == Tee_read(storage, tees[i], chunk)
           IN  /\ storage' = r.st
               /\ tees' = [tees EXCEPT ![i] = r.tee]
        /\ nreads' = nreads + 1
        /\ UNCHANGED <<call, closing, readers, nreqs, req, resp, pc, exc, now>>

\* the caller lets go of a response body (drained or not): the Tee and its
\* writer are garbage
Discard ==
    \E i \in DOMAIN tees :
        /\ tees' = RemoveAt(tees, i)
        /\ UNCHANGED <<call, closing, readers, storage, nreads, nreqs, req, resp, pc, exc, now>>

PurgeRecord ==
    \E url \in URLS, subtype \in Subtypes :
        /\ storage' = Storage_purge_record(storage, url, subtype)
        /\ UNCHANGED <<call, closing, readers, tees, nreads, nreqs, req, resp, pc, exc, now>>

NextStore == NewRecord \/ TeeRead \/ PurgeRecord

SpecStore == Init /\ [][NextStore]_vars

----------------------------------------------------------------------------
(* The session: requests go through pre_send_hook, then either the cached   *)
(* response or the transport's response goes through response_hook, and     *)
(* the caller reads the body.                                               *)

\* the requests the session sends: [full_url, method, headers, skip]
Request(url, method, headers, skip) ==
    [full_url |-> url, method |-> method, headers |-> headers, skip |-> skip,
     sent |-> FALSE, request_time |-> None]

Requests ==
    { Request("http://x/a", "GET", <<>>, {}),
      Request("http://x/a", "GET", "accept" :> "en", {}),
      Request("http://x/a", "POST", <<>>, {}) }

\* the answers of the origin server at time t: <<status, headers>>
Responses(t) ==
    LET date == "date" :> HttpDate(t)
        expires == "expires" :> HttpDate(t + Lifetime)
        etag == "etag" :> "v1"
        max_age == "cache-control" :> CacheControl(FALSE, Some(Lifetime))
    IN  { <<200, date>>,
          <<200, date @@ expires>>,
          <<200, date @@ etag>>,
          <<200, date @@ ("cache-control" :> CacheControl(FALSE, Some(0)))>>,
          <<200, date @@ expires @@ ("vary" :> <<"*">>)>>,
          <<200, date @@ expires @@ ("vary" :> <<"*">>) @@ etag>>,
          <<200, date @@ expires @@ ("vary" :> <<"Accept">>) @@ ("accept" :> "en")>>,
          <<200, date @@ ("expires" :> HttpDate(t - 1))>>,
          <<200, date @@ ("expires" :> JunkDate)>>,
          <<200, expires>>,
          <<200, ("date" :> JunkDate) @@ expires>>,
          <<200, ("date" :> WordDate) @@ expires>>,
          <<304, date>>,
          <<304, date @@ max_age>>,
          <<500, date @@ expires>> }

\* pre_send_hook runs on rq, one of at most max requests
PreSendOf(rq, max) ==
    /\ pc \in {"idle", "cached", "done", "pre_send_error", "response_error"}
    /\ \E o \in pre_send_hook(storage, rq, now) :
          /\ req' = o.req
          /\ resp' = o.resp
          /\ exc' = o.exc
          /\ pc' = IF o.exc # "" THEN "pre_send_error"
                   ELSE IF o.req.sent THEN "cached" ELSE "network"
          /\ call' = [hook |-> "pre_send_hook", called |-> o.called]
    /\ nreqs < max
    /\ nreqs' = nreqs + 1
    /\ UNCHANGED <<closing, readers, storage, tees, nreads, now>>

PreSend == \E rq \in Requests : PreSendOf(rq, MaxReqs)

\* response_hook runs on rsp
ResponseHook(rsp) ==
    LET o == response_hook(storage, rsp, now)
    IN  /\ o.slot # None => Len(tees) < MaxLive
        /\ storage' = o.st
        /\ tees' = IF o.slot # None THEN Append(tees, Tee_init(o.slot[1])) ELSE tees
        /\ resp' = Some(o.resp)
        /\ exc' = o.exc
        /\ pc' = IF o.exc # "" THEN "response_error" ELSE "done"
        /\ call' = [hook |-> "response_hook", called |-> o.called]
        /\ UNCHANGED <<closing, readers, nreads, nreqs, req, now>>

\* the transport returns a response for the request that was not served from cache
NetworkResponseOf(r) ==
    /\ pc = "network"
    /\ ResponseHook([url |-> req.full_url, status_code |-> r[1],
                     headers |-> r[2], from_cache |-> FALSE,
                     raw |-> NetworkBody, request |-> req])

NetworkResponse == \E r \in Responses(now) : NetworkResponseOf(r)

\* the response synthesised by pre_send_hook is dispatched to the response hook
CachedResponse ==
    /\ pc = "cached"
    /\ ResponseHook(resp[1])

Tick ==
    /\ now < MaxTime
    /\ now' = now + 1
    /\ UNCHANGED <<call, closing, readers, storage, tees, nreads, nreqs, req, resp, pc, exc>>

Next == PreSend \/ NetworkResponse \/ CachedResponse \/ TeeRead \/ Discard \/ Tick

Spec == Init /\ [][Next]_vars

----------------------------------------------------------------------------
(* What a caller can observe of a store, and helpers of the properties *)

Observe(st) ==
    [u \in URLS |->
        [subtypes |-> Storage_get_record_subtypes(st, u),
         records |-> [s \in Subtypes |->
                        <<Storage_get_record(st, u, s),
                          Storage_get_record_headers(st, u, s),
                          Storage_get_record_content(st, u, s)>>]]]

\* get_record(url, subtype) returns these headers and this content
Returns(st, url, subtype, headers, content) ==
    /\ Storage_get_record(st, url, subtype) =
           Ok(Some([headers |-> headers, content |-> content]))
    /\ Storage_get_record_headers(st, url, subtype) = Ok(Some(headers))
    /\ Storage_get_record_content(st, url, subtype) = Ok(Some(content))

\* get_record(url, subtype) returns None
Invisible(st, url, subtype) ==
    Storage_get_record(st, url, subtype) = Ok(None)

\* the bytes passed to the writer's write so far, in order
Written(st, slot) == IF st.kind = "InMemory" THEN Join(slot.data) ELSE slot.data

\* the record the last close on url put in the store
LastStored(st, url) ==
    IF st.kind = "InMemory"
    THEN LET rs == st.buffer[InMemory_key(url)] IN rs[Len(rs)]
    ELSE LET ls == st.index[FSEntry_full_path(url)]
             l == ls[Len(ls)]
         IN  [subtype |-> FSEntry_decode_subtype(l.subtype),
              headers |-> FSEntry_decode_headers(l.headers),
              content |-> st.content[FSEntry_content_path(url, l.subtype)]]

\* the Tees that have closed their writer at least once
Closed == {i \in DOMAIN tees : tees[i].closes > 0}

\* every writer has been closed at most once
ClosedOnce(ts) == \A i \in DOMAIN ts : ts[i].closes <= 1

\* Tee i closes its writer in this step
Closes(i) == /\ Len(tees') = Len(tees)
             /\ tees'[i].closes > tees[i].closes

\* this step is a run of pre_send_hook / of response_hook on a network response
PreSendStep == nreqs' = nreqs + 1
NetworkResponseStep == pc = "network" /\ pc' \in {"done", "response_error"}

\* the header value is a date httpfulldate2time parses
Parseable(d) == httpfulldate2time(d).exc = "" /\ httpfulldate2time(d).val # None

\* the dict subtype -> headers of the records of url, as lines 600-604 mean
\* to build it
CachedSubtypes(st, url) ==
    LET cached == Storage_get_record_subtypes(st, url)
        l == IF cached = None THEN <<>> ELSE cached[1]
    IN  [s \in {l[j] : j \in DOMAIN l} |->
            LET h == Storage_get_record_headers(st, url, s)
            IN  IF h.exc = "" /\ h.val # None THEN h.val[1] ELSE <<>>]

\* the cached entries the search of handle_request selects for rq, with the
\* verdict of the freshness computation on each
SelectedVerdicts(st, rq, time) ==
    {<<e[1], CacheableRequest_freshness(rq, e[1], e[2], time)>> :
        e \in CacheableRequest_selected(rq, CachedSubtypes(st, rq.full_url))}

----------------------------------------------------------------------------
(* C1: a record whose writer was never closed is never visible: whatever    *)
(* get_record, get_record_headers, get_record_content and                   *)
(* get_record_subtypes return for a url comes from a writer that was closed *)
(* (same url, subtype, headers, and the content written to that writer);    *)
(* a writer that was only opened and written to contributes nothing.        *)
C1_UnclosedNeverVisible ==
    \A u \in URLS :
        /\ \A s \in Subtypes :
              LET r == Storage_get_record(storage, u, s)
              IN  (r.exc = "" /\ r.val # None) =>
                    \E i \in Closed :
                        /\ tees[i].tslot.url = u
                        /\ tees[i].tslot.subtype = s
                        /\ Returns(storage, u, s, tees[i].tslot.headers,
                                   Join(tees[i].out))
        /\ LET l == Storage_get_record_subtypes(storage, u)
           IN  l # None =>
                 \A j \in DOMAIN l[1] :
                    \E i \in Closed : /\ tees[i].tslot.url = u
                                      /\ tees[i].tslot.subtype = l[1][j]

\* a Tee was read twice and abandoned, another writer was closed meanwhile,
\* and the store shows nothing for the abandoned one
C1_Witness ==
    \E i \in DOMAIN tees :
        /\ Len(tees[i].out) = 2
        /\ tees[i].closes = 0
        /\ Closed # {}
        /\ Invisible(storage, tees[i].tslot.url, tees[i].tslot.subtype)

(* C2: subtype uniqueness: in every state reached by opening writers,      *)
(* closing each at most once, and purging, get_record_subtypes(u) lists no  *)
(* subtype twice (no two visible records share (url, subtype)).             *)
C2_SubtypeUnique ==
    ClosedOnce(tees) =>
      \A u \in URLS :
        LET l == Storage_get_record_subtypes(storage, u)
        IN  l # None => \A i, j \in DOMAIN l[1] : l[1][i] = l[1][j] => i = j

(* C3: each close advances the tip: right after a writer for (u, s) with    *)
(* headers h and content c is closed (every writer being closed at most     *)
(* once), get_record(u, s), get_record_headers(u, s) and                    *)
(* get_record_content(u, s) return h and c.                                 *)
C3_CloseAdvancesTip ==
    [][\A i \in DOMAIN tees :
          (Closes(i) /\ ClosedOnce(tees')) => Returns(storage', tees[i].tslot.url, tees[i].tslot.subtype,
                               tees[i].tslot.headers, Join(tees[i].out))]_vars

(* C4: purge idempotence: in every state reached by opening writers,       *)
(* closing each at most once, and purging, purging (u, s) twice leaves the  *)
(* store observably as purging it once does, and after one purge            *)
(* get_record(u, s) returns None.                                           *)
C4_PurgeIdempotent ==
    ClosedOnce(tees) =>
    \A u \in URLS, s \in Subtypes :
        LET once == Storage_purge_record(storage, u, s)
            twice == Storage_purge_record(once, u, s)
        IN  /\ Observe(twice) = Observe(once)
            /\ Invisible(once, u, s)

(* C10: Tee fidelity: when a read on a Tee returns empty, the bytes passed  *)
(* to the writer equal, in order, the bytes returned to the caller, the     *)
(* record that close puts in the store has exactly that content, and where  *)
(* no record of that (url, subtype) was visible before, get_record_content  *)
(* now returns it.                                                          *)
C10_TeeFidelity ==
    [][\A i \in DOMAIN tees :
          Closes(i) =>
            LET u == tees[i].tslot.url
                s == tees[i].tslot.subtype
            IN  /\ Written(storage, tees[i].tslot) = Join(tees[i].out)
                /\ tees'[i].out = tees[i].out
                /\ LastStored(storage', u).content = Join(tees[i].out)
                /\ LastStored(storage', u).subtype = s
                /\ Storage_get_record(storage, u, s).val = None =>
                     Storage_get_record_content(storage', u, s) =
                         Ok(Some(Join(tees[i].out)))]_vars

\* a Tee that returned two different chunks and then empty
C10_Witness ==
    \E i \in Closed : /\ Len(tees[i].out) = 2
                      /\ tees[i].out[1] # tees[i].out[2]
                      /\ LastStored(storage, tees[i].tslot.url).content
                             = Join(tees[i].out)

----------------------------------------------------------------------------
(* C5: revalidation success: when the request carries the If-None-Match    *)
(* that pre_send_hook attached from the cached None-subtype record and the  *)
(* transport answers 304 with a parseable Date, response_hook ends          *)
(* normally, the response has the cached record's headers and content and   *)
(* from_cache = TRUE, and no writer is opened.                              *)
C5_RevalidationServesCache ==
    [][(/\ NetworkResponseStep
        /\ Has(req.headers, "if-none-match")
        /\ resp'[1].status_code = 304)
       => LET r == Storage_get_record(storage, req.full_url, NoSubtype)
          IN  /\ exc' = ""
              /\ r.exc = "" /\ r.val # None
              /\ resp'[1].from_cache
              /\ resp'[1].headers = r.val[1].headers
              /\ resp'[1].raw = ContentBody(r.val[1].content)
              /\ tees' = tees
              /\ storage' = storage]_vars

(* C6: a stale entry is purged and the request goes to the network: when    *)
(* pre_send_hook runs and the cached record (u, s) the search selects has   *)
(* freshness_lifetime <= current_age, the hook ends normally, get_record    *)
(* (u, s) returns None afterwards, no response is synthesised and the       *)
(* request is not marked sent.                                              *)
C6_StalePurged ==
    [][PreSendStep =>
         \A e \in SelectedVerdicts(storage, req', now) :
            (e[2].exc = "" /\ e[2].cmd = "purge") =>
               /\ exc' = ""
               /\ pc' = "network"
               /\ resp' = None
               /\ ~req'.sent
               /\ Invisible(storage', req'.full_url, e[1])]_vars

(* C7: a fresh entry is served from cache: when pre_send_hook runs and the  *)
(* cached record (u, s) the search selects has freshness_lifetime >         *)
(* current_age and no no-cache directive, the hook ends normally, the       *)
(* request is marked sent and carries a response with from_cache = TRUE,    *)
(* the record's _status_code, headers and content; the store is unchanged.  *)
C7_FreshServed ==
    [][PreSendStep =>
         \A e \in SelectedVerdicts(storage, req', now) :
            (e[2].exc = "" /\ e[2].cmd = "fetch") =>
               LET r == Storage_get_record(storage, req'.full_url, e[1])
               IN  /\ exc' = ""
                   /\ pc' = "cached"
                   /\ req'.sent
                   /\ r.exc = "" /\ r.val # None
                   /\ resp' # None
                   /\ resp'[1].from_cache
                   /\ resp'[1].status_code = r.val[1].headers["_status_code"]
                   /\ resp'[1].headers = r.val[1].headers
                   /\ resp'[1].raw = ContentBody(r.val[1].content)
                   /\ storage' = storage]_vars

(* C8: Vary: * disables storage: no record that get_record_headers returns  *)
(* for any url and subtype was made from a response with Vary: * and an     *)
(* Expires header (such a response creates no record, whatever its other    *)
(* headers and status code).                                                *)
C8_VaryStarNotStored ==
    \A u \in URLS, s \in Subtypes :
        LET h == Storage_get_record_headers(storage, u, s)
        IN  (h.exc = "" /\ h.val # None) =>
               ~(/\ Has(h.val[1], "vary") /\ h.val[1]["vary"] = <<"*">>
                 /\ Has(h.val[1], "expires") /\ Parseable(h.val[1]["expires"]))

(* C9: no cache error reaches the caller: whenever the dates of the         *)
(* transport's response parse, neither pre_send_hook nor response_hook      *)
(* ends in an error state.                                                  *)
C9_NoCacheError ==
    (resp # None /\ pc = "response_error" =>
        /\ Has(resp[1].headers, "date") /\ Parseable(resp[1].headers["date"])
        /\ Has(resp[1].headers, "expires") => Parseable(resp[1].headers["expires"]))
    => exc = ""

(* C11: the Tee closes its writer exactly once: whatever reads are made on  *)
(* a Tee, reads after one that returned empty included, close is called on  *)
(* its writer at most once.                                                 *)
C11_ClosedAtMostOnce ==
    \A i \in DOMAIN tees : tees[i].closes <= 1

----------------------------------------------------------------------------
(* Concurrent writers on the filesystem store.  Each entry of closing is a  *)
(* call of FSEntry.add_record in progress with its own handle on the index  *)
(* file: at is the line it executes next ("open": 283, "disable": 284,      *)
(* "write": 285, "content": 287-293, "done"), pos the number of records in  *)
(* front of its handle, last whether it was the last call to return.  The   *)
(* writers are for one (url, subtype) and their headers differ in the ETag  *)
(* only, so their index records have the same length in bytes.             *)

MaxWriters == 2

InitWriters ==
    /\ Init
    /\ storage = FSStorage_init

\* TSlot.close -> _put -> add_record is entered
StartClose ==
    \E url \in URLS, subtype \in Subtypes, content \in Chunks :
        /\ Len(closing) < MaxWriters
        /\ \A i \in DOMAIN closing : closing[i].url = url /\ closing[i].subtype = subtype
        /\ closing' = Append(closing,
                [url |-> url, subtype |-> subtype,
                 headers |-> SampleHeaders(Len(closing) + 1), content |-> content,
                 at |-> "open", pos |-> 0, last |-> FALSE])
        /\ UNCHANGED <<storage, tees, nreads, nreqs, req, resp, pc, exc, now, readers, call>>

\* line 283: fh = self.open_index('w')
WriterOpen ==
    \E i \in DOMAIN closing :
        /\ closing[i].at = "open"
        /\ storage' = FSEntry_open_index_w(storage, closing[i].url)
        /\ closing' = [closing EXCEPT ![i].at = "disable", ![i].pos = 0]
        /\ UNCHANGED <<tees, nreads, nreqs, req, resp, pc, exc, now, readers, call>>

\* line 284: self._disable_record(fh, subtype); the handle ends at the end of
\* the file as it is now
WriterDisable ==
    \E i \in DOMAIN closing :
        /\ closing[i].at = "disable"
        /\ LET p == FSEntry_full_path(closing[i].url)
           IN  /\ storage' = [storage EXCEPT !.index[p] =
                                 FSEntry_disable_lines(@, closing[i].subtype)]
               /\ closing' = [closing EXCEPT ![i].at = "write",
                                             ![i].pos = Len(storage.index[p])]
        /\ UNCHANGED <<tees, nreads, nreqs, req, resp, pc, exc, now, readers, call>>

\* the index file after three lines are written through a handle with pos
\* records in front of it: over the record that is there, or at the end
WriteAt(lines, pos, line) ==
    IF pos < Len(lines) THEN [lines EXCEPT ![pos + 1] = line] ELSE Append(lines, line)

\* line 285: rs = self._write_record(fh, subtype=subtype, headers=headers)
WriterWrite ==
    \E i \in DOMAIN closing :
        /\ closing[i].at = "write"
        /\ LET p == FSEntry_full_path(closing[i].url)
               line == FSEntry_write_record(closing[i].subtype, closing[i].headers, TRUE)
           IN  storage' = [storage EXCEPT !.index[p] = WriteAt(@, closing[i].pos, line)]
        /\ closing' = [closing EXCEPT ![i].at = "content", ![i].pos = @ + 1]
        /\ UNCHANGED <<tees, nreads, nreqs, req, resp, pc, exc, now, readers, call>>

\* lines 287-293: the content file is truncated and written; add_record returns
WriterContent ==
    \E i \in DOMAIN closing :
        /\ closing[i].at = "content"
        /\ LET cp == FSEntry_content_path(closing[i].url,
                                          FSEntry_encode_subtype(closing[i].subtype))
           IN  storage' = [storage EXCEPT !.content =
                              (cp :> CopyChunks(closing[i].content)) @@ @]
        /\ closing' = [j \in DOMAIN closing |->
                          IF j = i THEN [closing[j] EXCEPT !.at = "done", !.last = TRUE]
                                   ELSE [closing[j] EXCEPT !.last = FALSE]]
        /\ UNCHANGED <<tees, nreads, nreqs, req, resp, pc, exc, now, readers, call>>

NextWriters == StartClose \/ WriterOpen \/ WriterDisable \/ WriterWrite \/ WriterContent

SpecWriters == InitWriters /\ [][NextWriters]_vars

(* C12: concurrent writers on the same (url, subtype): once two (or more)   *)
(* writers whose add_record steps interleaved have all returned, the index  *)
(* holds exactly one enabled record for (url, subtype) and get_record       *)
(* returns the headers and the content of the writer that returned last.    *)
C12_LastCloseWins ==
    (Len(closing) >= 2 /\ \A i \in DOMAIN closing : closing[i].at = "done") =>
       \A i \in DOMAIN closing :
          closing[i].last =>
             LET w == closing[i]
                 p == FSEntry_full_path(w.url)
             IN  /\ Len(FSEntry_records(storage.index[p], Some(w.subtype), TRUE)) = 1
                 /\ Returns(storage, w.url, w.subtype, w.headers, CopyChunks(w.content))

----------------------------------------------------------------------------
(* Content readers.  get_record_content returns StringIO(record['content']) *)
(* in InMemory (a reader over its own copy of the bytes) and file(path) in  *)
(* FSStorage (a handle on the content file, which a later add_record for    *)
(* the same (url, subtype) opens 'w+b', that is truncates, and rewrites).   *)
(* A reader is [kind, data, path, pos, got, expect, eof]: got is what its   *)
(* read(1) calls returned so far, expect the content get_record_content     *)
(* found when the reader was obtained.                                      *)

MaxReaders == 1

\* the bytes a reader has under its handle now
ReaderBytes(st, r) == IF r.kind = "StringIO" THEN r.data ELSE st.content[r.path]

\* reader = storage.get_record_content(url, subtype), when it returns a reader
OpenReader ==
    \E url \in URLS, subtype \in Subtypes :
        /\ Len(readers) < MaxReaders
        /\ LET c == Storage_get_record_content(storage, url, subtype)
           IN  /\ c.exc = "" /\ c.val # None
               /\ readers' = Append(readers,
                      IF storage.kind = "InMemory"
                      THEN [kind |-> "StringIO", data |-> c.val[1], path |-> <<>>,
                            pos |-> 0, got |-> <<>>, expect |-> c.val[1], eof |-> FALSE]
                      ELSE [kind |-> "file", data |-> <<>>,
                            path |-> FSEntry_get_record(storage, url, subtype).val[1].content,
                            pos |-> 0, got |-> <<>>, expect |-> c.val[1], eof |-> FALSE])
        /\ UNCHANGED <<storage, tees, nreads, nreqs, req, resp, pc, exc, now, closing, call>>

\* reader.read(1): the next byte, or '' at the end of what is under the handle
ReaderRead ==
    \E i \in DOMAIN readers :
        /\ ~readers[i].eof
        /\ LET r == readers[i]
               bytes == ReaderBytes(storage, r)
           IN  readers' = [readers EXCEPT ![i] =
                  IF r.pos < Len(bytes)
                  THEN [r EXCEPT !.pos = @ + 1, !.got = Append(@, bytes[r.pos + 1])]
                  ELSE [r EXCEPT !.eof = TRUE]]
        /\ UNCHANGED <<storage, tees, nreads, nreqs, req, resp, pc, exc, now, closing, call>>

NextReaders == NewRecord \/ TeeRead \/ PurgeRecord \/ OpenReader \/ ReaderRead

SpecReaders == Init /\ [][NextReaders]_vars

(* C13: a reader outlives later writes: what a content reader returned by   *)
(* get_record_content has yielded is always a prefix of the content that    *)
(* was visible when the reader was obtained, and all of it once the reader  *)
(* has reached the end, whatever records were closed or purged meanwhile.   *)
C13_ReaderKeepsContent ==
    \A i \in DOMAIN readers :
        LET r == readers[i]
        IN  /\ Len(r.got) <= Len(r.expect)
            /\ r.got = SubSeq(r.expect, 1, Len(r.got))
            /\ r.eof => r.got = r.expect

----------------------------------------------------------------------------
\* the records the index file of url holds (none when the file is missing)
IndexOf(st, url) ==
    IF FSEntry_full_path(url) \in DOMAIN st.index
    THEN st.index[FSEntry_full_path(url)] ELSE <<>>

\* the physical records of subtype in the index file of url, in file order
Physical(st, url, subtype) == FSEntry_records(IndexOf(st, url), Some(subtype), FALSE)

RECURSIVE ClosesFor(_, _, _)
\* the number of close calls made so far by the writers of (url, subtype)
ClosesFor(ts, url, subtype) ==
    IF ts = <<>> THEN 0
    ELSE (IF ts[1].tslot.url = url /\ ts[1].tslot.subtype = subtype
          THEN ts[1].closes ELSE 0) + ClosesFor(Tail(ts), url, subtype)

\* n add_record calls for (url, subtype) left n physical records of which at
\* most the last is enabled
Tombstoned(st, ts, url, subtype) ==
    LET rs == Physical(st, url, subtype)
    IN  /\ Len(rs) = ClosesFor(ts, url, subtype)
        /\ \A k \in DOMAIN rs : k < Len(rs) => ~rs[k].enabled

(* C14: filesystem tombstones (single mutator).  Every add_record for       *)
(* (u, s) leaves the earlier records of the index in place and in order,    *)
(* with enabled byte 0 on those of s, and appends one record with enabled   *)
(* byte 1, whose content get_record(u, s) then returns; so after n calls    *)
(* the index holds n records for s, all but the last disabled.  A           *)
(* purge_record(u, s) removes no record and leaves every record of s with   *)
(* enabled byte 0.                                                          *)
C14_Tombstones ==
    [][storage.kind = "FSStorage" =>
         /\ \A u \in URLS, s \in Subtypes : Tombstoned(storage', tees', u, s)
         /\ \A i \in DOMAIN tees :
               Closes(i) =>
                 LET u == tees[i].tslot.url
                     s == tees[i].tslot.subtype
                     old == IndexOf(storage, u)
                     new == IndexOf(storage', u)
                 IN  /\ Len(new) = Len(old) + 1
                     /\ \A k \in DOMAIN old :
                           new[k] = IF old[k].subtype = FSEntry_encode_subtype(s)
                                    THEN [old[k] EXCEPT !.enabled = 0] ELSE old[k]
                     /\ new[Len(new)] =
                           FSEntry_write_record(s, tees[i].tslot.headers, TRUE)
                     /\ Returns(storage', u, s, tees[i].tslot.headers, Join(tees[i].out))
         /\ (tees' = tees /\ storage' # storage) =>
               \E u \in URLS, s \in Subtypes :
                  /\ Len(IndexOf(storage', u)) = Len(IndexOf(storage, u))
                  /\ \A k \in DOMAIN Physical(storage', u, s) :
                        ~Physical(storage', u, s)[k].enabled
                  /\ Invisible(storage', u, s)]_vars

\* two records were added for one (u, s) and then purged: both are still in
\* the index, both with enabled byte 0
C14_Witness ==
    /\ storage.kind = "FSStorage"
    /\ \E u \in URLS, s \in Subtypes :
          /\ Len(Physical(storage, u, s)) = 2
          /\ ClosesFor(tees, u, s) = 2
          /\ \A k \in DOMAIN Physical(storage, u, s) : ~Physical(storage, u, s)[k].enabled

----------------------------------------------------------------------------
(* Content negotiation: requests for one URL with different Accept values,  *)
(* answered with Vary: Accept (the response repeating the Accept value it   *)
(* was selected for, which is where handle_response reads the subtype's     *)
(* value) or without Vary.                                                  *)

MaxVaryReqs == 3

VaryRequests ==
    {Request("http://x/b", "GET", "accept" :> a, {}) : a \in {"en", "fr", "de"}}

VaryResponses(t, rq) ==
    LET fresh == ("date" :> HttpDate(t)) @@ ("expires" :> HttpDate(t + Lifetime))
    IN  { <<200, fresh>>,
          <<200, fresh @@ ("vary" :> <<"Accept">>) @@ ("accept" :> rq.headers["accept"])>> }

VaryPreSend == \E rq \in VaryRequests : PreSendOf(rq, MaxVaryReqs)

VaryNetworkResponse ==
    /\ pc = "network"
    /\ \E r \in VaryResponses(now, req) : NetworkResponseOf(r)

NextVary ==
    VaryPreSend \/ VaryNetworkResponse \/ CachedResponse \/ TeeRead \/ Discard

SpecVary == Init /\ [][NextVary]_vars

(* C15: Vary-based subtypes end to end.  A drained response stored under a  *)
(* non-None subtype is listed by get_record_subtypes; and when              *)
(* pre_send_hook runs, the request is matched to the non-None subtype all   *)
(* of whose (name, value) pairs the request carries, else to the None       *)
(* subtype if it has a record, and is served the (fresh) matched record's   *)
(* body; with no entry to match it goes to the network.                     *)
C15_VaryEndToEnd ==
    [][/\ \A i \in DOMAIN tees :
             Closes(i) =>
               LET l == Storage_get_record_subtypes(storage', tees[i].tslot.url)
               IN  l # None /\ \E j \in DOMAIN l[1] : l[1][j] = tees[i].tslot.subtype
       /\ PreSendStep =>
             LET sel == SelectedVerdicts(storage, req', now)
             IN  /\ sel = {} => exc' = "" /\ pc' = "network"
                 /\ \A e \in sel :
                       (e[2].exc = "" /\ e[2].cmd = "fetch") =>
                          /\ exc' = ""
                          /\ pc' = "cached"
                          /\ resp'[1].raw.data =
                                Storage_get_record_content(storage, req'.full_url, e[1]).val[1]]_vars

----------------------------------------------------------------------------
(* C17: pipeline short-circuit: in every invocation of pre_send_hook and of *)
(* response_hook the handlers are consulted in the order CacheableRequest   *)
(* then EtagValidator (CacheableRequest first, no request of the session    *)
(* skipping it), only the handler consulted last can have returned a        *)
(* verdict, so the effect of at most one verdict is applied and no handler  *)
(* is consulted after a verdict.                                            *)
C17_ShortCircuit ==
    call.hook \in {"pre_send_hook", "response_hook"} =>
       LET c == call.called
           rank(h) == IF h = "CacheableRequest" THEN 1 ELSE 2
       IN  /\ \A j, k \in DOMAIN c : j < k => rank(c[j].h) < rank(c[k].h)
           /\ c # <<>> => c[1].h = "CacheableRequest"
           /\ \A k \in DOMAIN c : k < Len(c) => c[k].cmd = ""

\* pre_send_hook stopped at the 'fetch' verdict of CacheableRequest: the
\* cached record has an ETag, for which EtagValidator would have returned
\* 'request', and EtagValidator was not consulted
C17_Witness ==
    /\ call.hook = "pre_send_hook"
    /\ call.called = <<Consulted("CacheableRequest", "fetch")>>
    /\ resp # None /\ Has(resp[1].headers, "etag")
    /\ ~Has(req.headers, "if-none-match")

----------------------------------------------------------------------------
(* The CacheableRequest handler called directly: handle_request on a request *)
(* and a subtype -> headers map, handle_response on a response, at a time    *)
(* of the clock.  The call (arguments, then outcome) is kept in `call`.      *)

MaxClock == 3      \* datetime.now() ranges over 0..MaxClock in direct calls
MaxAge   == 2      \* largest Age header and largest max-age of a direct call

\* the ways a header named k can be absent or carry one of the values vs
HeaderChoices(k, vs) == {<<>>} \cup {k :> v : v \in vs}

\* the Cache-Control values: any subset of no-cache and max-age=N
CacheControls ==
    {CacheControl(nc, ma) : nc \in BOOLEAN,
                            ma \in {None} \cup {Some(n) : n \in 0..MaxAge}}

\* the headers of a cached record, as Storage.get_record_headers returns
\* them: the response headers plus the _request_time and _response_time the
\* response hook added (the request was sent before its response arrived)
CachedHeaders ==
    { d @@ a @@ e @@ c @@ ("_request_time" :> q) @@ ("_response_time" :> q + w) :
        d \in HeaderChoices("date", {HttpDate(0), HttpDate(1)}),
        a \in HeaderChoices("age", {0, MaxAge}),
        e \in HeaderChoices("expires", {HttpDate(1), HttpDate(MaxClock), JunkDate, WordDate}),
        c \in HeaderChoices("cache-control", CacheControls),
        q \in 0..1, w \in 0..1 }

\* a record that stays fresh for the whole run of the clock
FreshHeaders ==
    ("date" :> HttpDate(0)) @@ ("cache-control" :> CacheControl(FALSE, Some(MaxClock + 3)))
      @@ ("_request_time" :> 0) @@ ("_response_time" :> 0)

\* the subtype -> headers maps handle_request is given for a record with
\* headers h: the record alone under the None subtype, alone under a dict
\* subtype, or under a dict subtype beside a fresh None-subtype record
SubtypeMaps(h) ==
    { NoSubtype :> h,
      DictSubtype({<<"accept", "en">>}) :> h,
      (DictSubtype({<<"accept", "en">>}) :> h) @@ (NoSubtype :> FreshHeaders) }

HandlerRequests ==
    { Request("http://x/a", "GET", <<>>, {}),
      Request("http://x/a", "GET", "accept" :> "en", {}) }

\* the responses handle_response is given: <<method, status, headers>>
HandlerResponses ==
    { <<m, code, c @@ e @@ v @@ a>> :
        m \in {"GET", "HEAD", "POST"},
        code \in {200, 304, 404, 500},
        c \in HeaderChoices("cache-control", CacheControls),
        e \in HeaderChoices("expires", {HttpDate(1), HttpDate(MaxClock), JunkDate, WordDate}),
        v \in HeaderChoices("vary", {<<>>, <<"*">>, <<"Accept">>}),
        a \in HeaderChoices("accept", {"en"}) }

\* a call of handle_request on its arguments, not returned yet
PendingRequestCall(rq, m, t) ==
    [hook |-> "handle_request", called |-> <<>>, returned |-> FALSE,
     rq |-> rq, subtypes |-> m, time |-> t, res |-> {}]

\* a call of handle_response on its arguments, not returned yet
PendingResponseCall(r, t) ==
    LET rq == Request("http://x/a", r[1], <<>>, {})
    IN  [hook |-> "handle_response", called |-> <<>>, returned |-> FALSE,
         rsp |-> [url |-> rq.full_url, status_code |-> r[2], headers |-> r[3],
                  from_cache |-> FALSE, raw |-> NetworkBody, request |-> rq],
         time |-> t, res |-> NoVerdict(rq)]

\* a handler is about to be called on arguments drawn from the sets above
InitHandlers ==
    /\ storage = InMemory_init
    /\ tees = <<>>
    /\ nreads = 0
    /\ nreqs = 0
    /\ req = NoRequest
    /\ resp = None
    /\ pc = "idle"
    /\ exc = ""
    /\ now = 0
    /\ closing = <<>>
    /\ readers = <<>>
    /\ \/ \E rq \in HandlerRequests, h \in CachedHeaders :
             \E m \in SubtypeMaps(h), t \in h["_response_time"]..MaxClock :
                call = PendingRequestCall(rq, m, t)
       \/ \E r \in HandlerResponses, t \in 0..MaxClock :
             call = PendingResponseCall(r, t)

\* CacheableRequest.handle_request(request, subtypes) at time call.time
CallHandleRequest ==
    /\ call.hook = "handle_request" /\ ~call.returned
    /\ call' = [call EXCEPT
                  !.returned = TRUE,
                  !.res = CacheableRequest_handle_request(call.rq, Some(call.subtypes),
                                                          call.time)]
    /\ UNCHANGED <<storage, tees, nreads, nreqs, req, resp, pc, exc, now,
                   closing, readers>>

\* CacheableRequest.handle_response(response) at time call.time
CallHandleResponse ==
    /\ call.hook = "handle_response" /\ ~call.returned
    /\ call' = [call EXCEPT
                  !.returned = TRUE,
                  !.res = CacheableRequest_handle_response(call.rsp, call.time)]
    /\ UNCHANGED <<storage, tees, nreads, nreqs, req, resp, pc, exc, now,
                   closing, readers>>

NextHandlers == CallHandleRequest \/ CallHandleResponse

SpecHandlers == InitHandlers /\ [][NextHandlers]_vars

\* the (subtype, headers) entries the search of handle_request selected in
\* the call
CallSelected == CacheableRequest_selected(call.rq, call.subtypes)

----------------------------------------------------------------------------
(* C16: no-cache forces a miss: when the Cache-Control of the cached entry   *)
(* the matching rule selects contains no-cache, handle_request returns no    *)
(* verdict (neither fetch nor purge, and no exception), and when the         *)
(* Cache-Control of a response contains no-cache, handle_response returns    *)
(* no verdict (no store).                                                    *)
C16_NoCacheMiss ==
    call.returned =>
    /\ call.hook = "handle_request" =>
          \A e \in CallSelected :
             (Has(e[2], "cache-control") /\ e[2]["cache-control"].no_cache)
                => CacheableRequest_freshness(call.rq, e[1], e[2], call.time)
                      = NoVerdict(call.rq)
    /\ (/\ call.hook = "handle_request"
        /\ CallSelected # {}
        /\ \A e \in CallSelected :
              Has(e[2], "cache-control") /\ e[2]["cache-control"].no_cache)
          => call.res = {NoVerdict(call.rq)}
    /\ (/\ call.hook = "handle_response"
        /\ Has(call.rsp.headers, "cache-control")
        /\ call.rsp.headers["cache-control"].no_cache)
          => call.res = NoVerdict(call.rsp.request)

\* handle_request returned nothing for a selected dict-subtype entry that
\* carries no-cache beside a max-age under which it would still be fresh
C16_Witness ==
    /\ call.hook = "handle_request" /\ call.returned
    /\ call.res = {NoVerdict(call.rq)}
    /\ \E e \in CallSelected :
          /\ ~e[1].isNone
          /\ Has(e[2], "cache-control") /\ Has(e[2], "date")
          /\ e[2]["cache-control"] = CacheControl(TRUE, Some(MaxAge))
          /\ CacheableRequest_current_age(e[2], e[2]["date"].t, call.time) < MaxAge

----------------------------------------------------------------------------
(* C18: freshness is monotone in time: with the headers of the selected      *)
(* cached record fixed, current_age never decreases as now grows; a purge    *)
(* verdict at the time of the call is a purge verdict at every later time;   *)
(* and a fetch verdict at the time of the call has turned into purge, once   *)
(* and for good, by the time now has grown past every lifetime.              *)
C18_FreshnessMonotone ==
    (call.hook = "handle_request" /\ call.returned) =>
       \A e \in CallSelected :
          LET verdict(t) == CacheableRequest_freshness(call.rq, e[1], e[2], t)
              Horizon == 2 * MaxClock + MaxAge + 4
              later == call.time..Horizon
          IN  /\ verdict(call.time) \in call.res
              /\ (Has(e[2], "date") /\ Parseable(e[2]["date"])) =>
                    \A t1, t2 \in later :
                       t1 <= t2 =>
                          CacheableRequest_current_age(e[2], e[2]["date"].t, t1)
                             <= CacheableRequest_current_age(e[2], e[2]["date"].t, t2)
              /\ verdict(call.time).cmd = "purge" =>
                    \A t \in later : verdict(t).cmd = "purge"
              /\ verdict(call.time).cmd = "fetch" =>
                    /\ verdict(Horizon).cmd = "purge"
                    /\ \A t1, t2 \in later :
                          (t1 <= t2 /\ verdict(t2).cmd = "fetch") => verdict(t1).cmd = "fetch"

\* handle_request answered fetch for a record that the same headers make
\* stale before the clock has run out
C18_Witness ==
    /\ call.hook = "handle_request" /\ call.returned
    /\ call.time < MaxClock
    /\ \E e \in CallSelected :
          /\ CacheableRequest_freshness(call.rq, e[1], e[2], call.time).cmd = "fetch"
          /\ CacheableRequest_freshness(call.rq, e[1], e[2], call.time) \in call.res
          /\ CacheableRequest_freshness(call.rq, e[1], e[2], MaxClock).cmd = "purge"

----------------------------------------------------------------------------
(* C19: the freshness decision follows the reference rule: for every         *)
(* selected cached entry with a parseable Date and no no-cache directive,    *)
(* handle_request answers fetch iff freshness_lifetime > current_age and     *)
(* purge otherwise, where freshness_lifetime is N when Cache-Control carries *)
(* max-age=N (N = 0 included, Expires present or not) and Expires - Date     *)
(* when only Expires is present, and current_age =                           *)
(* max(max(0, _response_time - Date), Age) + (_response_time -               *)
(* _request_time) + (now - _response_time).                                  *)
C19_ReferenceRule ==
    (call.hook = "handle_request" /\ call.returned) =>
       \A e \in CallSelected :
          LET h == e[2]
              hascc == Has(h, "cache-control")
              has_max_age == hascc /\ h["cache-control"].max_age # None
              has_expires == Has(h, "expires") /\ Parseable(h["expires"])
              Date == h["date"].t
              Age == IF Has(h, "age") THEN h["age"] ELSE 0
              freshness_lifetime == IF has_max_age THEN h["cache-control"].max_age[1]
                                    ELSE h["expires"].t - Date
              current_age == Max(Max(0, h["_response_time"] - Date), Age)
                                + (h["_response_time"] - h["_request_time"])
                                + (call.time - h["_response_time"])
          IN  (/\ Has(h, "date") /\ Parseable(h["date"])
               /\ ~(hascc /\ h["cache-control"].no_cache)
               /\ has_max_age \/ has_expires)
                 => IF freshness_lifetime > current_age
                    THEN Verdict("fetch", call.rq.full_url, e[1], call.rq) \in call.res
                    ELSE Verdict("purge", call.rq.full_url, e[1], call.rq) \in call.res

----------------------------------------------------------------------------
(* C20: store conditions of handle_response: it answers                      *)
(* ('store', (url, subtype)) iff the method is GET or HEAD, the status is    *)
(* below 500, Cache-Control does not contain no-cache, max-age or Expires is *)
(* present, Vary is not '*', every header named in Vary has a value in the   *)
(* response headers, and Expires (when present) is not in the past; in every *)
(* other case it returns no verdict.  The subtype is None when Vary is       *)
(* absent or empty, and otherwise maps each lower-cased Vary name to the     *)
(* value of that header in the response.                                     *)
C20_StoreConditions ==
    (call.hook = "handle_response" /\ call.returned) =>
       LET rsp == call.rsp
           h == rsp.headers
           hascc == Has(h, "cache-control")
           vary == IF Has(h, "vary") THEN h["vary"] ELSE <<>>
           names == {Lower(vary[i]) : i \in DOMAIN vary}
           in_the_past == /\ Has(h, "expires") /\ Parseable(h["expires"])
                          /\ h["expires"].t <= call.time
           stores == /\ rsp.request.method \in {"GET", "HEAD"}
                     /\ rsp.status_code < 500
                     /\ ~(hascc /\ h["cache-control"].no_cache)
                     /\ (hascc /\ h["cache-control"].max_age # None) \/ Has(h, "expires")
                     /\ vary # <<"*">>
                     /\ \A n \in names : Has(h, n)
                     /\ ~in_the_past
           subtype == IF vary = <<>> THEN NoSubtype
                      ELSE DictSubtype({<<n, h[n]>> : n \in names})
       IN  call.res = IF stores THEN Verdict("store", rsp.url, subtype, rsp.request)
                      ELSE NoVerdict(rsp.request)

----------------------------------------------------------------------------
(* C21: responses without a usable Date are ignored: when the transport's    *)
(* response has no Date header, or a Date that is not an HTTP date (a string *)
(* with neither comma nor space included), the date parser yields None       *)
(* instead of raising and response_hook does nothing: it returns normally,   *)
(* creates no record, and leaves raw, headers and from_cache as they were.   *)
C21_NoDateIgnored ==
    [][(/\ NetworkResponseStep
        /\ ~(Has(resp'[1].headers, "date") /\ Parseable(resp'[1].headers["date"])))
          => /\ Has(resp'[1].headers, "date") =>
                   httpfulldate2time(resp'[1].headers["date"]) = Ok(None)
             /\ exc' = "" /\ pc' = "done"
             /\ storage' = storage /\ tees' = tees
             /\ resp'[1].raw = NetworkBody
             /\ ~resp'[1].from_cache]_vars

----------------------------------------------------------------------------
(* C22: only responses to GET or HEAD requests enter or leave the cache:     *)
(* response_hook opens no record (through either handler) for a response     *)
(* whose request method is not GET or HEAD, and pre_send_hook never          *)
(* synthesises a cached response for a request whose method is not GET or    *)
(* HEAD.                                                                     *)
C22_OnlyGetOrHead ==
    [][req'.method \notin {"GET", "HEAD"} =>
          /\ NetworkResponseStep =>
                /\ Len(tees') = Len(tees)
                /\ storage' = storage
                /\ resp'[1].raw # TeeBody
          /\ PreSendStep =>
                /\ resp' = None
                /\ ~req'.sent
                /\ pc' # "cached"]_vars

============================================================================
